---- MODULE Spec2Model ----
(***************************************************************************)
(* Model of the sandboxed Python runner of backend/app/python_runner.py:   *)
(* input sanitization, archive building, the container orchestration of   *)
(* run_python against a container engine, and the output collector.        *)
(*                                                                         *)
(* Texts are sequences of characters (one-character strings; "LF" names    *)
(* the newline, "U+00E9" a two-byte character, "U+FFFD" the replacement    *)
(* character).  Byte strings are sequences of integers 0..255.             *)
(* Time is counted in poll intervals of 0.05 s.                            *)
(***************************************************************************)
EXTENDS Integers, Sequences, FiniteSets, TLC

VARIABLES
    pc,       \* position of run_python, or of the function under study
    cfg,      \* configuration read from the environment (config.py)
    inp,      \* the arguments of run_python: [code, files]
    loc,      \* local variables of run_python
    eng,      \* the container engine: container, its /tmp, the exec process
    now,      \* time.monotonic(), in poll intervals
    calls,    \* engine calls issued so far (consecutive repeats recorded once)
    outcome,  \* what run_python returned or raised
    fin,      \* argument of a pure function studied on its own
    fout      \* its result

vars == <<pc, cfg, inp, loc, eng, now, calls, outcome, fin, fout>>

----------------------------------------------------------------------------
(* Bounds of the model *)

\* longest engine call latency, in poll intervals
MaxLatency == 1
\* longest byte string handed to the output decoder on its own
MaxOutBytes == 4
\* most members of a post-run archive studied on its own
MaxMembers == 3
\* requests to the endpoint that are under way together
MaxHandlers == 3
\* most chunks of an archive stream read on its own
MaxChunks == 3
\* longest path handed to the path check on its own
MaxPathLen == 7

(* Configuration (config.py), with small configured values *)

RUNNER_TIMEOUT_SEC == 1
RUNNER_MAX_OUTPUT == 2
RUNNER_MAX_CODE_SIZE == 3
RUNNER_MAX_FILES == 2
RUNNER_MAX_FILE_BYTES == 3
RUNNER_MAX_ARCHIVE_BYTES == 12

\* deadline = time.monotonic() + config.RUNNER_TIMEOUT_SEC + 2
GraceSec == 2
\* time.sleep(0.05): one poll interval; 20 of them per second
TicksPerSec == 20
\* exit_code = 137
KILLED == 137
\* RUNNER_CONCURRENCY, the permits of runner_semaphore
RUNNER_CONCURRENCY == 2

----------------------------------------------------------------------------
(* Python values: str, None, int and the like *)

Str(s) == [t |-> "str", s |-> s]
None == [t |-> "none", s |-> <<>>]
Int5 == [t |-> "int", s |-> <<>>]

\* isinstance(v, str)
IsStr(v) == v.t = "str"
\* bool(v): None and "" are falsy, the non-zero int is truthy
Truthy(v) == IF v.t = "str" THEN v.s /= <<>> ELSE v.t = "int"

Whitespace == {" ", "LF"}
Alnum == {"a", "b", "e", "g", "i", "l", "m", "n", "o", "p", "r", "s", "t", "u",
          "v", "x", "y", "0"}
SafeRest == Alnum \cup {".", "_", "/", "-"}

RECURSIVE LStripSet(_, _)
\* str.lstrip(chars)
LStripSet(s, chars) ==
    IF s /= <<>> /\ Head(s) \in chars THEN LStripSet(Tail(s), chars) ELSE s

RECURSIVE RStripSet(_, _)
RStripSet(s, chars) ==
    IF s /= <<>> /\ s[Len(s)] \in chars
    THEN RStripSet(SubSeq(s, 1, Len(s) - 1), chars) ELSE s

\* str.strip()
Strip(s) == RStripSet(LStripSet(s, Whitespace), Whitespace)

\* str.replace("\\", "/")
ReplaceBackslash(s) == [i \in 1..Len(s) |-> IF s[i] = "\\" THEN "/" ELSE s[i]]

\* str.startswith(p)
StartsWith(s, p) == Len(s) >= Len(p) /\ SubSeq(s, 1, Len(p)) = p

\* str.endswith(p)
EndsWith(s, p) == Len(s) >= Len(p) /\ SubSeq(s, Len(s) - Len(p) + 1, Len(s)) = p

\* p is looked for at the start of s only
ContainsAtStart(s, p) == StartsWith(s, p)

\* p in s
Contains(s, p) ==
    \E i \in 1..(Len(s) - Len(p) + 1) : SubSeq(s, i, i + Len(p) - 1) = p

\* SAFE_PATH = re.compile(r"^[A-Za-z0-9][A-Za-z0-9._/-]*$")
SAFE_PATH(s) ==
    /\ s /= <<>>
    /\ s[1] \in Alnum
    /\ \A i \in 2..Len(s) : s[i] \in SafeRest

Ok(v) == [exc |-> "none", val |-> v]
Raise(e) == [exc |-> e, val |-> <<>>]

\* _safe_path(path): (path or "").strip() raises AttributeError on a truthy
\* value that is not a str
_safe_path(path) ==
    IF ~IsStr(path) /\ Truthy(path) THEN Raise("AttributeError")
    ELSE LET cleaned == ReplaceBackslash(Strip(IF Truthy(path) THEN path.s ELSE <<>>))
         IN IF \/ cleaned = <<>>
               \/ StartsWith(cleaned, <<"/">>)
               \/ StartsWith(cleaned, <<".", "/">>)
               \/ StartsWith(cleaned, <<".", ".", "/">>)
            THEN Raise("ValueError")
            ELSE IF \/ Contains(cleaned, <<"/", ".", ".", "/">>)
                    \/ cleaned = <<".", ".">>
            THEN Raise("ValueError")
            ELSE IF ~SAFE_PATH(cleaned) THEN Raise("ValueError")
            ELSE Ok(cleaned)

----------------------------------------------------------------------------
(* UTF-8 *)

\* code points of the one-byte characters of the model
Ord(c) ==
    CASE c = "a" -> 97
      [] c = "b" -> 98
      [] c = " " -> 32
      [] c = "LF" -> 10
      [] OTHER -> 63

\* str.encode("utf-8") of one character
EncodeChar(c) ==
    CASE c = "U+00E9" -> <<195, 169>>
      [] c = "U+FFFD" -> <<239, 191, 189>>
      [] OTHER -> <<Ord(c)>>

RECURSIVE Encode(_)
\* str.encode("utf-8")
Encode(s) == IF s = <<>> THEN <<>> ELSE EncodeChar(Head(s)) \o Encode(Tail(s))

\* the character of a byte below 128
Chr(b) ==
    CASE b = 97 -> "a"
      [] b = 98 -> "b"
      [] b = 32 -> " "
      [] b = 10 -> "LF"
      [] OTHER -> "?"

RECURSIVE Decode(_)
\* bytes.decode("utf-8", errors="replace"): a lead byte 0xC3 followed by the
\* continuation byte 0xA9 is one character, every byte that starts no valid
\* sequence becomes U+FFFD
Decode(b) ==
    IF b = <<>> THEN <<>>
    ELSE IF Head(b) < 128 THEN <<Chr(Head(b))>> \o Decode(Tail(b))
    ELSE IF Head(b) = 195 /\ Len(b) >= 2 /\ b[2] = 169
         THEN <<"U+00E9">> \o Decode(SubSeq(b, 3, Len(b)))
    ELSE IF Len(b) >= 3 /\ SubSeq(b, 1, 3) = <<239, 191, 189>>
         THEN <<"U+FFFD">> \o Decode(SubSeq(b, 4, Len(b)))
    ELSE <<"U+FFFD">> \o Decode(Tail(b))

----------------------------------------------------------------------------
(* Input Sanitizer and Archive Builder *)

MAIN_PY == <<"m", "a", "i", "n", ".", "p", "y">>
TURTLE_PY == <<"t", "u", "r", "t", "l", "e", ".", "p", "y">>
TMP_SLASH == <<"t", "m", "p", "/">>
\* the fixed text of the shim module
TURTLE_STUB == <<"b">>

RECURSIVE SanitizeFrom(_, _)
\* the loop of _sanitize_files over the items, cleaned being the list so far
SanitizeFrom(items, cleaned) ==
    IF items = <<>> THEN Ok(cleaned)
    ELSE LET item == Head(items)
         IN IF ~item.dict THEN Raise("ValueError")
            ELSE LET path == _safe_path(item.path)
                 IN IF path.exc /= "none" THEN Raise(path.exc)
                    ELSE IF ~IsStr(item.content) THEN Raise("ValueError")
                    ELSE IF Len(Encode(item.content.s)) > RUNNER_MAX_FILE_BYTES
                         THEN Raise("ValueError")
                    ELSE SanitizeFrom(Tail(items),
                             Append(cleaned, [path |-> path.val,
                                              content |-> item.content.s]))

\* _sanitize_files(files); files is [list, items], a non-list having no items
\* and being truthy or falsy by its field "truthy"
_sanitize_files(files) ==
    IF (files.list /\ files.items = <<>>) \/ (~files.list /\ ~files.truthy)
    THEN Ok(<<>>)
    ELSE IF ~files.list THEN Raise("ValueError")
    ELSE IF Len(files.items) > RUNNER_MAX_FILES THEN Raise("ValueError")
    ELSE SanitizeFrom(files.items, <<>>)

\* _add_text: one archive entry
_add_text(name, content) == [name |-> name, data |-> Encode(content)]

\* _build_archive(code, files)
_build_archive(code, files) ==
    <<_add_text(MAIN_PY, code), _add_text(TURTLE_PY, TURTLE_STUB)>>
    \o [i \in 1..Len(files) |-> _add_text(files[i].path, files[i].content)]

----------------------------------------------------------------------------
(* base64: the alphabet is written as the indices 0..63, 64 being "=" *)

RECURSIVE b64encode(_)
\* base64.b64encode
b64encode(b) ==
    IF b = <<>> THEN <<>>
    ELSE IF Len(b) = 1
         THEN <<b[1] \div 4, (b[1] % 4) * 16, 64, 64>>
    ELSE IF Len(b) = 2
         THEN <<b[1] \div 4, (b[1] % 4) * 16 + b[2] \div 16, (b[2] % 16) * 4, 64>>
    ELSE <<b[1] \div 4, (b[1] % 4) * 16 + b[2] \div 16,
           (b[2] % 16) * 4 + b[3] \div 64, b[3] % 64>>
         \o b64encode(SubSeq(b, 4, Len(b)))

RECURSIVE b64decode(_)
\* base64.b64decode
b64decode(s) ==
    IF Len(s) < 4 THEN <<>>
    ELSE LET b1 == s[1] * 4 + s[2] \div 16
             b2 == (s[2] % 16) * 16 + s[3] \div 4
             b3 == (s[3] % 4) * 64 + s[4]
         IN IF s[3] = 64 THEN <<b1>>
            ELSE IF s[4] = 64 THEN <<b1, b2>>
            ELSE <<b1, b2, b3>> \o b64decode(SubSeq(s, 5, Len(s)))

----------------------------------------------------------------------------
(* Output Collector *)

\* "\n...[truncated]"
TRUNCATED == <<"LF", ".", ".", ".", "[", "t", "r", "u", "n", "c", "a", "t", "e",
               "d", "]">>

\* the cut decided on the number of bytes
CollectTextByBytes(bytes) ==
    LET text == Decode(bytes)
    IN IF Len(bytes) > RUNNER_MAX_OUTPUT
       THEN SubSeq(text, 1, RUNNER_MAX_OUTPUT) \o TRUNCATED
       ELSE text

\* (bytes or b"").decode("utf-8", errors="replace"), cut at RUNNER_MAX_OUTPUT
\* characters with the marker appended
CollectText(bytes) ==
    LET text == Decode(bytes)
    IN IF Len(text) > RUNNER_MAX_OUTPUT
       THEN SubSeq(text, 1, RUNNER_MAX_OUTPUT) \o TRUNCATED
       ELSE text

\* lines 503-512: stdout and stderr of the exec, each collected on its own
CollectOutput(exec_output) ==
    [stdout |-> CollectText(exec_output.out), stderr |-> CollectText(exec_output.err)]

\* _mime_for(path); the model has no upper-case characters to lower
_mime_for(path) ==
    IF EndsWith(path, <<".", "s", "v", "g">>) THEN "image/svg+xml"
    ELSE IF EndsWith(path, <<".", "p", "n", "g">>) THEN "image/png"
    ELSE "text/plain"

\* the name of an archive member as run_python reports it
MemberName(name) ==
    LET n1 == LStripSet(name, {".", "/"})
        n2 == IF StartsWith(n1, TMP_SLASH) THEN SubSeq(n1, 5, Len(n1)) ELSE n1
    IN LStripSet(n2, {".", "/"})

\* the shim module is not filtered
SkippedNameEntryOnly(name) == name = <<>> \/ name = MAIN_PY

\* the members run_python does not report
SkippedName(name) == name = <<>> \/ name \in {MAIN_PY, TURTLE_PY}

\* the content is reported whole
WholeContent(content) == content

\* if len(content) > RUNNER_MAX_FILE_BYTES: content = content[:RUNNER_MAX_FILE_BYTES]
CutContent(content) ==
    IF Len(content) > RUNNER_MAX_FILE_BYTES
    THEN SubSeq(content, 1, RUNNER_MAX_FILE_BYTES)
    ELSE content

RECURSIVE ExtractFiles(_, _)
\* the loop over tar.getmembers(), files_out being the list so far
ExtractFiles(members, files_out) ==
    IF members = <<>> THEN files_out
    ELSE LET member == Head(members)
             name == MemberName(member.name)
             content == CutContent(member.data)
         IN IF ~member.isfile \/ SkippedName(name)
               \/ Len(files_out) >= RUNNER_MAX_FILES
            THEN ExtractFiles(Tail(members), files_out)
            ELSE ExtractFiles(Tail(members),
                     Append(files_out, [path |-> name,
                                        size |-> Len(content),
                                        mime |-> _mime_for(name),
                                        content_base64 |-> b64encode(content)]))

\* a stream that reaches the ceiling is refused
CrossesAtCeiling(size, max_bytes) == size >= max_bytes

\* if size > max_bytes
Crosses(size, max_bytes) == size > max_bytes

\* _read_archive(stream, max_bytes); a chunk is [size, members]
RECURSIVE ReadFrom(_, _, _, _)
ReadFrom(stream, max_bytes, size, buf) ==
    IF stream = <<>> THEN Ok(buf)
    ELSE IF Crosses(size + Head(stream).size, max_bytes) THEN Raise("RunnerError")
    ELSE ReadFrom(Tail(stream), max_bytes, size + Head(stream).size,
                  buf \o Head(stream).members)

_read_archive(stream, max_bytes) == ReadFrom(stream, max_bytes, 0, <<>>)

----------------------------------------------------------------------------
(* The arguments of run_python and the programs it is given *)

File(path, content) == [dict |-> TRUE, path |-> path, content |-> content]
NotADict == [dict |-> FALSE, path |-> None, content |-> None]
List(items) == [list |-> TRUE, truthy |-> items /= <<>>, items |-> items]
NotAList == [list |-> FALSE, truthy |-> TRUE, items |-> <<>>]

F_notes == File(Str(<<"n">>), Str(<<"a">>))
F_second == File(Str(<<"x">>), Str(<<"U+00E9", "b">>))

CodeInputs ==
    { Int5, Str(<<>>), Str(<<" ">>), Str(<<"a">>), Str(<<"a", "a", "a", "a">>),
      Str(<<"U+00E9", "U+00E9", "U+00E9">>) }

FileInputs ==
    { List(<<>>), NotAList,
      List(<<F_notes>>),
      List(<<F_notes, F_second>>),
      List(<<F_notes, F_second, F_notes>>),
      List(<<NotADict>>),
      List(<<File(Str(<<".", ".", "/", "x">>), Str(<<"x">>))>>),
      List(<<File(Str(<<"/", "e">>), Str(<<"x">>))>>),
      List(<<File(Str(<<"a", "/", ".", ".">>), Str(<<"x">>))>>),
      List(<<File(Str(<<"a", "!">>), Str(<<"x">>))>>),
      List(<<File(Int5, Str(<<"x">>))>>),
      List(<<File(None, Str(<<"x">>))>>),
      List(<<File(Str(<<"n">>), Int5)>>),
      List(<<File(Str(<<"n">>), Str(<<"a", "a", "a", "a">>))>>),
      List(<<File(Str(MAIN_PY), Str(<<"b">>))>>) }

\* what the submitted program does in the container: the bytes it prints and
\* the files it leaves in its working directory
ProgOutputs ==
    { [out |-> <<97>>, err |-> <<>>],
      [out |-> <<97, 195, 169, 98>>, err |-> <<98, 255, 98>>] }

OUT_FILE == [name |-> <<"o">>, data |-> <<97, 98>>]
ProgWrites == { <<>>, <<OUT_FILE>>, <<[name |-> <<".", "o">>, data |-> <<97>>]>> }

\* how long a program that ends on its own runs, in poll intervals
ProgLives == {0, 2}
\* the exit status of a program that ends on its own
ProgExitCodes == {0, 124}

\* an engine call returns at once or after MaxLatency poll intervals
Latency == {0, MaxLatency}

NoExit == 0 - 1
NoContainer == "none"

\* the containers of the runs that go on at the same time
OtherRuns == {"c0"}

Loc0 ==
    [ cleaned_files |-> <<>>, archive |-> <<>>, container_id |-> NoContainer,
      start |-> 0, timed_out |-> FALSE, stdout |-> <<>>, stderr |-> <<>>,
      exit_code |-> NoExit, exec_output |-> [out |-> <<>>, err |-> <<>>],
      exec_result |-> [Running |-> FALSE, ExitCode |-> NoExit],
      deadline |-> 0, archive_bytes |-> <<>>, exc |-> "none" ]

Eng0(socket) ==
    [ socket |-> socket, exists |-> FALSE, running |-> FALSE, fs |-> <<>>,
      proc |-> "none", procEnd |-> 0, procExit |-> NoExit, endedBy |-> "none",
      wrote |-> <<>>, removeFailed |-> FALSE,
      made |-> {}, execs |-> {}, touched |-> {} ]

NoResult == [ stdout |-> <<>>, stderr |-> <<>>, exit_code |-> NoExit,
              timed_out |-> FALSE, duration_ms |-> 0, files |-> <<>> ]

Init ==
    /\ pc = "validate"
    /\ cfg \in { [enabled |-> TRUE, auto_pull |-> FALSE],
                 [enabled |-> TRUE, auto_pull |-> TRUE],
                 [enabled |-> FALSE, auto_pull |-> FALSE] }
    /\ inp \in [code : CodeInputs, files : FileInputs]
    /\ loc = Loc0
    /\ eng \in { Eng0(s) : s \in {"socket", "file", "missing"} }
    /\ now = 0
    /\ calls = <<>>
    /\ outcome = [kind |-> "none", result |-> NoResult]
    /\ fin = <<>>
    /\ fout = <<>>

\* the engine call log, the exec_inspect calls of one poll recorded once
Log(log, call) ==
    IF call = "exec_inspect" /\ log /= <<>> /\ log[Len(log)] = call
    THEN log ELSE Append(log, call)

\* every call is addressed to the first container of the engine
TargetFirst(container_id) == "c0"

\* the container an engine call is addressed to: the id in container_id
Target(container_id) == container_id

\* the engine e after a call addressed to container_id
Touch(e, container_id) == [e EXCEPT !.touched = @ \cup {Target(container_id)}]

\* run_python raises e
Raises(e) ==
    /\ pc' = "done"
    /\ outcome' = [kind |-> e, result |-> NoResult]

\* an exception inside the try block: control passes to the finally block,
\* a DockerException having been turned into RunnerUnavailable
Fails(e) ==
    /\ pc' = "finally"
    /\ loc' = [loc EXCEPT !.exc = e]

----------------------------------------------------------------------------
(* run_python, lines 417-425: configuration, validation, archive *)

ValidateWith(before) ==
    /\ pc = "validate"
    /\ calls' = calls \o before
    /\ UNCHANGED <<cfg, inp, eng, now, fin, fout>>
    /\ IF ~cfg.enabled
       THEN Raises("RunnerUnavailable") /\ UNCHANGED loc
       ELSE IF ~IsStr(inp.code) \/ Strip(inp.code.s) = <<>>
       THEN Raises("ValueError") /\ UNCHANGED loc
       ELSE IF Len(inp.code.s) > RUNNER_MAX_CODE_SIZE
       THEN Raises("ValueError") /\ UNCHANGED loc
       ELSE LET cleaned == _sanitize_files(inp.files)
            IN IF cleaned.exc /= "none"
               THEN Raises(cleaned.exc) /\ UNCHANGED loc
               ELSE /\ pc' = "client"
                    /\ loc' = [loc EXCEPT
                                 !.cleaned_files = cleaned.val,
                                 !.archive = _build_archive(inp.code.s, cleaned.val)]
                    /\ UNCHANGED outcome

\* the socket is looked at before validation
ValidateAfterSocket == ValidateWith(<<"ensure_socket">>)

Validate == ValidateWith(<<>>)

\* the path is only required to exist
SocketUsableIfPresent(socket) == socket /= "missing"

\* _ensure_socket: the path exists and S_ISSOCK holds of its mode
SocketUsable(socket) == socket = "socket"

(* lines 427, 232-276: _client() *)
Client ==
    /\ pc = "client"
    /\ UNCHANGED <<cfg, inp, loc, eng, now, fin, fout>>
    /\ IF ~SocketUsable(eng.socket)
       THEN /\ calls' = Log(calls, "ensure_socket")
            /\ Raises("RunnerUnavailable")
       ELSE /\ calls' = Log(Log(calls, "ensure_socket"), "APIClient")
            /\ \E ok \in BOOLEAN :
                 IF ok
                 THEN /\ pc' = IF cfg.auto_pull THEN "pull" ELSE "create"
                      /\ UNCHANGED outcome
                 ELSE Raises("RunnerUnavailable")

(* lines 428-434: client.pull *)
Pull ==
    /\ pc = "pull"
    /\ calls' = Log(calls, "pull")
    /\ UNCHANGED <<cfg, inp, loc, eng, now, fin, fout>>
    /\ \E ok \in BOOLEAN :
         IF ok
         THEN pc' = "create" /\ UNCHANGED outcome
         ELSE Raises("RunnerUnavailable")

(* lines 451-469: create_container *)
Create ==
    /\ pc = "create"
    /\ calls' = Log(calls, "create_container")
    /\ UNCHANGED <<cfg, inp, outcome, fin, fout>>
    /\ \E ok \in BOOLEAN, d \in Latency :
         /\ now' = now + d
         /\ IF ok
            THEN /\ eng' = [eng EXCEPT !.exists = TRUE, !.made = @ \cup {"c1"}]
                 /\ loc' = [loc EXCEPT !.start = now, !.container_id = "c1"]
                 /\ pc' = "start"
            ELSE /\ pc' = "finally"
                 /\ loc' = [loc EXCEPT !.start = now, !.exc = "RunnerUnavailable"]
                 /\ UNCHANGED eng

(* line 470: client.start *)
Start ==
    /\ pc = "start"
    /\ calls' = Log(calls, "start")
    /\ UNCHANGED <<cfg, inp, outcome, fin, fout>>
    /\ \E ok \in BOOLEAN, d \in Latency :
         /\ now' = now + d
         /\ IF ok
            THEN /\ eng' = Touch([eng EXCEPT !.running = TRUE], loc.container_id)
                 /\ pc' = "upload"
                 /\ UNCHANGED loc
            ELSE Fails("RunnerUnavailable") /\ eng' = Touch(eng, loc.container_id)

RECURSIVE WriteFiles(_, _)
\* the files of /tmp after the entries are written in order, a later entry
\* replacing an earlier file of the same name
WriteFiles(fs, entries) ==
    IF entries = <<>> THEN fs
    ELSE LET e == Head(entries)
             at == {i \in 1..Len(fs) : fs[i].name = e.name}
         IN WriteFiles(IF at = {} THEN Append(fs, e)
                       ELSE [i \in 1..Len(fs) |-> IF i \in at THEN e ELSE fs[i]],
                       Tail(entries))

(* lines 471-473: put_archive *)
Upload ==
    /\ pc = "upload"
    /\ calls' = Log(calls, "put_archive")
    /\ UNCHANGED <<cfg, inp, outcome, fin, fout>>
    /\ \E r \in {"ok", "refused", "raise"}, d \in Latency :
         /\ now' = now + d
         /\ CASE r = "ok" ->
                   /\ eng' = Touch([eng EXCEPT !.fs = WriteFiles(eng.fs, loc.archive)],
                                   loc.container_id)
                   /\ pc' = "exec_create"
                   /\ UNCHANGED loc
              [] r = "refused" ->
                   Fails("RunnerError") /\ eng' = Touch(eng, loc.container_id)
              [] OTHER ->
                   Fails("RunnerUnavailable") /\ eng' = Touch(eng, loc.container_id)

(* lines 474-487: exec_create *)
ExecCreate ==
    /\ pc = "exec_create"
    /\ calls' = Log(calls, "exec_create")
    /\ UNCHANGED <<cfg, inp, outcome, fin, fout>>
    /\ \E r \in {"ok", "no_id", "raise"}, d \in Latency :
         /\ now' = now + d
         /\ CASE r = "ok" ->
                   /\ eng' = Touch([eng EXCEPT !.execs = @ \cup {"e1"}],
                                   loc.container_id)
                   /\ pc' = "exec_start"
                   /\ UNCHANGED loc
              [] r = "no_id" ->
                   Fails("RunnerError") /\ eng' = Touch(eng, loc.container_id)
              [] OTHER ->
                   Fails("RunnerUnavailable") /\ eng' = Touch(eng, loc.container_id)

\* exec_inspect at time t: the exec's Running and ExitCode
InspectAt(t) ==
    IF eng.proc = "forever" \/ (eng.proc = "finite" /\ t < eng.procEnd)
    THEN [Running |-> TRUE, ExitCode |-> NoExit]
    ELSE [Running |-> FALSE, ExitCode |-> eng.procExit]

\* the processes an exec can start: one that ends on its own, one that the
\* in-container "timeout -s SIGKILL" ends after RUNNER_TIMEOUT_SEC, and one
\* that the engine still reports running whatever the time
Processes(t) ==
    { [proc |-> "finite", procEnd |-> t + d, procExit |-> c, endedBy |-> "self"] :
        d \in ProgLives, c \in ProgExitCodes }
    \cup { [proc |-> "finite", procEnd |-> t + RUNNER_TIMEOUT_SEC * TicksPerSec,
            procExit |-> KILLED, endedBy |-> "watchdog"],
           [proc |-> "forever", procEnd |-> 0, procExit |-> NoExit,
            endedBy |-> "none"] }

(* lines 488-489, 331-386: exec_start of the bootstrap command; the call    *)
(* returns when the output stream ends (the process is over) or before that *)
ExecStart ==
    /\ pc = "exec_start"
    /\ calls' = Log(calls, "exec_start")
    /\ UNCHANGED <<cfg, inp, outcome, fin, fout>>
    /\ \/ /\ now' = now
          /\ Fails("RunnerUnavailable")
          /\ UNCHANGED eng
       \/ \E p \in Processes(now), o \in ProgOutputs, w \in ProgWrites,
             blocks \in BOOLEAN, d \in Latency :
            /\ blocks => p.proc = "finite"
            /\ now' = (IF blocks THEN p.procEnd ELSE now) + d
            /\ eng' = [eng EXCEPT
                         !.proc = p.proc, !.procEnd = p.procEnd,
                         !.procExit = p.procExit, !.endedBy = p.endedBy,
                         !.wrote = w,
                         !.fs = WriteFiles(
                                    WriteFiles(eng.fs, <<_add_text(MAIN_PY, inp.code.s)>>),
                                    w)]
            /\ loc' = [loc EXCEPT
                         !.exec_output = o,
                         !.deadline = now' + (RUNNER_TIMEOUT_SEC + GraceSec) * TicksPerSec]
            /\ pc' = "inspect"

(* line 490: the first exec_inspect *)
Inspect ==
    /\ pc = "inspect"
    /\ calls' = Log(calls, "exec_inspect")
    /\ UNCHANGED <<cfg, inp, eng, outcome, fin, fout>>
    /\ \E ok \in BOOLEAN, d \in Latency :
         /\ now' = now + d
         /\ IF ok
            THEN /\ loc' = [loc EXCEPT !.exec_result = InspectAt(now')]
                 /\ pc' = "poll"
            ELSE Fails("RunnerUnavailable")

\* the loop condition without the deadline
KeepPollingWhileRunning(running, t, deadline) == running

\* while exec_result.get("Running") and time.monotonic() < deadline
KeepPolling(running, t, deadline) == running /\ t < deadline

(* lines 491-493: one iteration, time.sleep(0.05) and exec_inspect *)
Poll ==
    /\ pc = "poll"
    /\ KeepPolling(loc.exec_result.Running, now, loc.deadline)
    /\ calls' = Log(calls, "exec_inspect")
    /\ UNCHANGED <<cfg, inp, eng, outcome, fin, fout>>
    /\ \E ok \in BOOLEAN, d \in Latency :
         /\ now' = now + 1 + d
         /\ IF ok
            THEN /\ loc' = [loc EXCEPT !.exec_result = InspectAt(now')]
                 /\ pc' = "poll"
            ELSE Fails("RunnerUnavailable")

\* the container is never killed
AfterPollNoKill(running) == "collect"

\* if exec_result.get("Running"): the kill, else straight to the output
AfterPoll(running) == IF running THEN "kill" ELSE "collect"

(* lines 494-496: the loop is left *)
PollExit ==
    /\ pc = "poll"
    /\ ~KeepPolling(loc.exec_result.Running, now, loc.deadline)
    /\ loc' = [loc EXCEPT
                 !.exit_code = loc.exec_result.ExitCode,
                 !.timed_out = loc.exec_result.Running]
    /\ pc' = AfterPoll(loc.exec_result.Running)
    /\ UNCHANGED <<cfg, inp, eng, now, calls, outcome, fin, fout>>

(* lines 497-501: client.kill, its failure swallowed *)
Kill ==
    /\ pc = "kill"
    /\ calls' = Log(calls, "kill")
    /\ UNCHANGED <<cfg, inp, outcome, fin, fout>>
    /\ \E ok \in BOOLEAN, d \in Latency :
         /\ now' = now + d
         /\ eng' = Touch(IF ok THEN [eng EXCEPT !.running = FALSE, !.proc = "none"]
                         ELSE eng,
                         loc.container_id)
    /\ loc' = [loc EXCEPT !.exit_code = KILLED]
    /\ pc' = "collect"

\* the tar stream of /tmp: the directory, then one chunk per file
ArchiveOf(fs) ==
    <<[size |-> 1,
       members |-> <<[name |-> TMP_SLASH, isfile |-> FALSE, data |-> <<>>]>>]>>
    \o [i \in 1..Len(fs) |->
          [size |-> 1 + Len(fs[i].data),
           members |-> <<[name |-> TMP_SLASH \o fs[i].name, isfile |-> TRUE,
                          data |-> fs[i].data]>>]]

(* lines 503-515: the output texts, get_archive and _read_archive *)
Collect ==
    /\ pc = "collect"
    /\ calls' = Log(calls, "get_archive")
    /\ eng' = Touch(eng, loc.container_id)
    /\ UNCHANGED <<cfg, inp, outcome, fin, fout>>
    /\ pc' = "finally"
    /\ \E ok \in BOOLEAN, d \in Latency :
         /\ now' = now + d
         /\ LET output == CollectOutput(loc.exec_output)
                texts == [loc EXCEPT !.stdout = output.stdout,
                                     !.stderr = output.stderr]
                read == _read_archive(ArchiveOf(eng.fs), RUNNER_MAX_ARCHIVE_BYTES)
            IN IF ~ok THEN loc' = [texts EXCEPT !.exc = "RunnerUnavailable"]
               ELSE IF read.exc /= "none" THEN loc' = [texts EXCEPT !.exc = read.exc]
               ELSE loc' = [texts EXCEPT !.archive_bytes = read.val]

\* the finally block without "force=True" semantics: nothing is removed
\* once an exception is on its way
RemovesOnSuccessOnly(container_id, exc) == container_id /= NoContainer /\ exc = "none"

\* finally: if container_id: client.remove_container(container_id, force=True)
Removes(container_id, exc) == container_id /= NoContainer

\* a failed removal is raised in place of what was on its way
PendingOrRemovalFailure(removed, exc) ==
    IF removed THEN exc ELSE "RunnerUnavailable"

\* except Exception: pass around remove_container: what propagates out of
\* the finally block is the exception that entered it, if any
Pending(removed, exc) == exc

(* lines 516-523: the finally block; a failure of the removal is swallowed, *)
(* then the pending exception, if any, propagates                           *)
Finally ==
    /\ pc = "finally"
    /\ UNCHANGED <<cfg, inp, loc, fin, fout>>
    /\ \E ok \in BOOLEAN, d \in Latency :
         /\ IF Removes(loc.container_id, loc.exc)
            THEN /\ calls' = Log(calls, "remove_container")
                 /\ now' = now + d
                 /\ eng' = Touch(IF ok
                                 THEN [eng EXCEPT !.exists = FALSE, !.running = FALSE,
                                                  !.proc = "none"]
                                 ELSE [eng EXCEPT !.removeFailed = TRUE],
                                 loc.container_id)
            ELSE ok /\ d = 0 /\ UNCHANGED <<calls, now, eng>>
         /\ IF Pending(ok, loc.exc) /= "none" THEN Raises(Pending(ok, loc.exc))
            ELSE pc' = "extract" /\ UNCHANGED outcome

\* only 137 is taken for a forced end
TimeoutCodesKillOnly == {KILLED}

\* if exit_code in {124, 137}
TimeoutCodes == {124, KILLED}

(* lines 525-568: duration, produced files, the RunResult *)
Return ==
    /\ pc = "extract"
    /\ pc' = "done"
    /\ outcome' =
         [kind |-> "result",
          result |->
            [stdout |-> loc.stdout,
             stderr |-> loc.stderr,
             exit_code |-> loc.exit_code,
             timed_out |-> loc.timed_out \/ loc.exit_code \in TimeoutCodes,
             duration_ms |-> (now - loc.start) * (1000 \div TicksPerSec),
             files |-> ExtractFiles(loc.archive_bytes, <<>>)]]
    /\ UNCHANGED <<cfg, inp, loc, eng, now, calls, fin, fout>>

Next ==
    \/ Validate \/ Client \/ Pull \/ Create \/ Start \/ Upload \/ ExecCreate
    \/ ExecStart \/ Inspect \/ Poll \/ PollExit \/ Kill \/ Collect \/ Finally
    \/ Return

Spec == Init /\ [][Next]_vars

----------------------------------------------------------------------------
(* The output collector on its own: lines 503-512 on any pair of byte      *)
(* strings, lines 528-556 on any archive                                    *)

OutBytes == {97, 195, 169}
ByteStrings == UNION { [1..n -> OutBytes] : n \in 0..MaxOutBytes }

Idle ==
    /\ cfg = [enabled |-> TRUE, auto_pull |-> FALSE]
    /\ inp = [code |-> Str(<<"a">>), files |-> List(<<>>)]
    /\ loc = Loc0
    /\ eng = Eng0("socket")
    /\ now = 0
    /\ calls = <<>>
    /\ outcome = [kind |-> "none", result |-> NoResult]

InitText ==
    /\ pc = "collect_output"
    /\ fin \in [out : ByteStrings, err : ByteStrings]
    /\ fout = <<>>
    /\ Idle

CollectOutputCall ==
    /\ pc = "collect_output"
    /\ fout' = CollectOutput(fin)
    /\ pc' = "returned"
    /\ UNCHANGED <<cfg, inp, loc, eng, now, calls, outcome, fin>>

SpecText == InitText /\ [][CollectOutputCall]_vars

Name_tmp_main == TMP_SLASH \o MAIN_PY
Name_tmp_turtle == TMP_SLASH \o TURTLE_PY

\* member names an archive of /tmp can carry
MemberNames ==
    { Name_tmp_main, Name_tmp_turtle, MAIN_PY,
      <<".", "/">> \o Name_tmp_main,
      TMP_SLASH \o <<".", "/">> \o MAIN_PY,
      TMP_SLASH \o <<".">> \o TURTLE_PY,
      TMP_SLASH \o Name_tmp_main,
      TMP_SLASH \o <<"o">>,
      TMP_SLASH \o <<"a", "/", "o", ".", "s", "v", "g">> }

Members ==
    { [name |-> n, isfile |-> TRUE, data |-> d] :
        n \in MemberNames, d \in {<<97>>, <<97, 98, 97, 98>>} }
    \cup { [name |-> TMP_SLASH, isfile |-> FALSE, data |-> <<>>] }

InitExtract ==
    /\ pc = "extract_files"
    /\ fin \in UNION { [1..n -> Members] : n \in 0..MaxMembers }
    /\ fout = <<>>
    /\ Idle

ExtractFilesCall ==
    /\ pc = "extract_files"
    /\ fout' = ExtractFiles(fin, <<>>)
    /\ pc' = "returned"
    /\ UNCHANGED <<cfg, inp, loc, eng, now, calls, outcome, fin>>

SpecExtract == InitExtract /\ [][ExtractFilesCall]_vars

----------------------------------------------------------------------------
(* Properties *)

Created == loc.container_id /= NoContainer
LastCall == IF calls = <<>> THEN "none" ELSE calls[Len(calls)]
Returned == pc = "done" /\ outcome.kind = "result"
Result == outcome.result

\* C1 (as stated): whenever run_python has returned or raised, the container
\* created for the run no longer exists in the engine.
C1_NoContainerLeft == pc = "done" => ~eng.exists

\* C1 (amended): whenever run_python has returned or raised after creating a
\* container, remove_container was the last engine call it issued, and the
\* container still exists only if the engine failed that removal.
C1_RemovalAlwaysAttempted ==
    pc = "done" =>
        /\ Created => LastCall = "remove_container"
        /\ eng.exists => eng.removeFailed

C1_Witness ==
    /\ pc = "done"
    /\ outcome.kind = "RunnerError"
    /\ Created
    /\ ~eng.exists

\* C2: run_python ends with a RunResult or with one of the three named error
\* kinds (ValueError, RunnerUnavailable, RunnerError), whatever the input.
C2_OnlyNamedOutcomes ==
    pc = "done" =>
        outcome.kind \in {"result", "ValueError", "RunnerUnavailable", "RunnerError"}

\* a file entry whose path holds ".." or starts with "/"
HasTraversalPath ==
    \E i \in 1..Len(inp.files.items) :
        LET item == inp.files.items[i]
        IN /\ item.dict
           /\ IsStr(item.path)
           /\ \/ Contains(item.path.s, <<".", ".">>)
              \/ StartsWith(item.path.s, <<"/">>)

\* C3: with a file path that holds ".." anywhere or starts with "/", the run
\* never gets past validation (it ends with the validation error, or with
\* RunnerUnavailable when the runner is disabled) and no container is created.
C3_TraversalPathsRefused ==
    HasTraversalPath =>
        /\ pc \in {"validate", "done"}
        /\ outcome.kind \in {"none", "ValueError", "RunnerUnavailable"}
        /\ ~eng.exists

\* C4: when run_python raises the validation error, no engine interaction
\* (socket check, client construction, pull, create) has taken place.
C4_ValidationBeforeEngine ==
    outcome.kind = "ValueError" => calls = <<>> /\ ~eng.exists

C4_Witness ==
    /\ pc = "done"
    /\ outcome.kind = "ValueError"
    /\ cfg.enabled
    /\ inp.code = Str(<<"a">>)
    /\ inp.files = List(<<File(Str(<<".", ".", "/", "x">>), Str(<<"x">>))>>)

\* the exec was started and its program does not end on its own
NeverEndsOnItsOwn == loc.deadline > 0 /\ eng.endedBy /= "self"

\* C5 (as stated): for a program that never ends on its own, run_python
\* returns no later than timeout plus grace after the run started, and
\* duration_ms is at most timeout plus grace.
C5_ReturnsWithinTimeoutPlusGrace ==
    (Returned /\ NeverEndsOnItsOwn) =>
        /\ now - loc.start <= (RUNNER_TIMEOUT_SEC + GraceSec) * TicksPerSec
        /\ Result.duration_ms <= (RUNNER_TIMEOUT_SEC + GraceSec) * 1000

\* C5 (amended): every poll iteration (sleep, then exec_inspect) begins while
\* the exec is reported running and strictly before the deadline, which lies
\* timeout plus grace after exec_start returned.
C5_NoPollAfterDeadline ==
    [][(pc = "poll" /\ calls' = Log(calls, "exec_inspect") /\ now' > now) =>
          (loc.exec_result.Running /\ now < loc.deadline
           /\ loc.deadline <= now + (RUNNER_TIMEOUT_SEC + GraceSec) * TicksPerSec)]_vars

C5_Witness ==
    /\ pc = "poll"
    /\ eng.proc = "forever"
    /\ loc.exec_result.Running
    /\ now >= loc.deadline

\* a deadline layer ended the run: the orchestrator's poll deadline, or the
\* in-container kill seen by the poll
DeadlineFired ==
    \/ loc.timed_out
    \/ /\ eng.endedBy = "watchdog"
       /\ ~loc.exec_result.Running
       /\ loc.exec_result.ExitCode = KILLED

\* C6: a run ended by a deadline layer yields a RunResult with timed_out,
\* exit code 137 and the collected stdout and stderr, never an error.
C6_DeadlineGivesTimedOutResult ==
    (pc = "done" /\ DeadlineFired) =>
        /\ outcome.kind = "result"
        /\ Result.timed_out
        /\ Result.exit_code = 137
        /\ Result.stdout = CollectText(loc.exec_output.out)
        /\ Result.stderr = CollectText(loc.exec_output.err)

\* C7: in every RunResult, timed_out is true when the exec's observed exit
\* code is 137 or 124, or the exec was still reported running when the poll
\* loop was left.
C7_TimedOutWhenForced ==
    Returned =>
        ((loc.exec_result.ExitCode \in {124, 137} \/ loc.exec_result.Running)
            => Result.timed_out)

C7_Witness ==
    /\ Returned
    /\ loc.exec_result.ExitCode = 124
    /\ Result.timed_out

\* what the claim says of one stream: cut to the first RUNNER_MAX_OUTPUT
\* characters followed by the marker when longer, unchanged otherwise
CutAtCeiling(bytes, text) ==
    LET decoded == Decode(bytes)
    IN IF Len(decoded) > RUNNER_MAX_OUTPUT
       THEN /\ Len(text) = RUNNER_MAX_OUTPUT + Len(TRUNCATED)
            /\ SubSeq(text, 1, RUNNER_MAX_OUTPUT) = SubSeq(decoded, 1, RUNNER_MAX_OUTPUT)
            /\ SubSeq(text, RUNNER_MAX_OUTPUT + 1, Len(text)) = TRUNCATED
       ELSE text = decoded

\* C8: stdout and stderr are each, independently, cut at RUNNER_MAX_OUTPUT
\* characters with the marker appended, or returned unchanged.
C8_TruncationAtCeiling ==
    pc = "returned" =>
        /\ CutAtCeiling(fin.out, fout.stdout)
        /\ CutAtCeiling(fin.err, fout.stderr)

C8_Witness ==
    /\ pc = "returned"
    /\ Len(Decode(fin.out)) > RUNNER_MAX_OUTPUT
    /\ Len(fout.stdout) = RUNNER_MAX_OUTPUT + Len(TRUNCATED)
    /\ Len(fin.err) > RUNNER_MAX_OUTPUT
    /\ Len(Decode(fin.err)) = RUNNER_MAX_OUTPUT
    /\ fout.stderr = Decode(fin.err)

\* C9: no entry of files has path main.py or turtle.py, whatever the archive.
C9_EntryAndShimExcluded ==
    pc = "returned" =>
        \A i \in 1..Len(fout) : fout[i].path \notin {MAIN_PY, TURTLE_PY}

C9_Witness ==
    /\ pc = "returned"
    /\ \E i \in 1..Len(fin) : fin[i].isfile /\ MemberName(fin[i].name) = TURTLE_PY
    /\ \E i \in 1..Len(fin) : fin[i].isfile /\ MemberName(fin[i].name) = MAIN_PY
    /\ Len(fout) = 1

\* C10: when the program wrote exactly one small file and ended normally,
\* files has exactly one entry, with the file's path and its bytes.
C10_OneFileRoundTrip ==
    ( /\ Returned
      /\ Len(eng.wrote) = 1
      /\ eng.endedBy = "self"
      /\ Result.exit_code = 0 ) =>
        /\ Len(Result.files) = 1
        /\ Result.files[1].path = eng.wrote[1].name
        /\ b64decode(Result.files[1].content_base64) = eng.wrote[1].data

----------------------------------------------------------------------------
(* Properties of run_python: containers, failures, call order, limits *)

\* the call was issued
Called(call) == \E i \in 1..Len(calls) : calls[i] = call

PastValidation == loc.archive /= <<>>

C16_FailuresAfterCreateAreRunnerError ==
    (pc = "done" /\ Created /\ outcome.kind /= "result") =>
        /\ outcome.kind = "RunnerError"
        /\ LastCall = "remove_container"

\* the order of the engine calls on a container
CallOrder ==
    <<"create_container", "start", "put_archive", "exec_create", "exec_start",
      "exec_inspect", "kill", "get_archive", "remove_container">>

IsContainerCall(call) == \E i \in 1..Len(CallOrder) : CallOrder[i] = call
Rank(call) == CHOOSE i \in 1..Len(CallOrder) : CallOrder[i] = call
ContainerCalls == SelectSeq(calls, IsContainerCall)

\* C18: the engine calls on the container come in the order create, start,
\* upload, exec create, exec start, poll, kill, archive read, remove: each
\* call is followed by the next of the order, by the archive read when the
\* poll needs no kill, or by the remove; none but the inspect of the poll is
\* issued twice; the kill is issued exactly when the poll loop was left with
\* the exec still running; the remove is the last call of every run that
\* created a container, and a run that returns a result issued them all.
C18_CallsInOrder ==
    LET cs == ContainerCalls
    IN /\ cs /= <<>> => cs[1] = "create_container"
       /\ \A i \in 1..(Len(cs) - 1) :
            \/ Rank(cs[i + 1]) = Rank(cs[i]) + 1
            \/ cs[i] = "exec_inspect" /\ cs[i + 1] = "get_archive"
            \/ cs[i] /= "remove_container" /\ cs[i + 1] = "remove_container"
       /\ Called("kill") => loc.timed_out
       /\ (loc.timed_out /\ pc /= "kill") => Called("kill")
       /\ (pc = "done" /\ Created) => LastCall = "remove_container"
       /\ Returned =>
            \A i \in 1..Len(CallOrder) : CallOrder[i] /= "kill" => Called(CallOrder[i])

C18_Witness ==
    /\ Returned
    /\ ContainerCalls = CallOrder

\* the code, the number of files or the content of a file is over its limit
OverALimit ==
    \/ ~IsStr(inp.code)
    \/ inp.code.s = <<>>
    \/ Len(Encode(inp.code.s)) > RUNNER_MAX_CODE_SIZE
    \/ Len(inp.files.items) > RUNNER_MAX_FILES
    \/ \E i \in 1..Len(inp.files.items) :
         LET item == inp.files.items[i]
         IN /\ item.dict
            /\ IsStr(item.content)
            /\ Len(Encode(item.content.s)) > RUNNER_MAX_FILE_BYTES

\* a list of files with plain relative paths and text contents
PlainFiles ==
    /\ inp.files.list
    /\ \A i \in 1..Len(inp.files.items) :
         LET item == inp.files.items[i]
         IN /\ item.dict
            /\ IsStr(item.path)
            /\ IsStr(item.content)
            /\ item.path.s /= <<>>
            /\ \A k \in 1..Len(item.path.s) : item.path.s[k] \in Alnum

\* C19: with the runner enabled, an input over a limit (code empty or not
\* text, code longer in UTF-8 bytes than RUNNER_MAX_CODE_SIZE, more files
\* than RUNNER_MAX_FILES, a file content longer in UTF-8 bytes than
\* RUNNER_MAX_FILE_BYTES) ends validation with the validation error, and an
\* input at or below every limit with plain paths never does.
C19_LimitsEnforced ==
    (cfg.enabled /\ pc /= "validate") =>
        /\ OverALimit => (pc = "done" /\ outcome.kind = "ValueError")
        /\ (~OverALimit /\ PlainFiles /\ Strip(inp.code.s) /= <<>>) =>
               outcome.kind /= "ValueError"

----------------------------------------------------------------------------
(* The endpoint POST /api/python/run of backend/app/main.py: the auth      *)
(* middleware, csrf_guard, the handler, and run_python under it.  fin      *)
(* holds the request with the rows of the session store it meets, fout the *)
(* request state and the response.                                         *)

LESSON_PREFIX == <<"l", "e", "s", "s", "o", "n", "-">>
Digits == {"0"}

\* \d+$: digits up to the end, "$" matching before a last newline as well
DigitsToEnd(s) ==
    LET d == IF s /= <<>> /\ s[Len(s)] = "LF" THEN SubSeq(s, 1, Len(s) - 1) ELSE s
    IN d /= <<>> /\ \A i \in 1..Len(d) : d[i] \in Digits

\* valid_lesson_id: re.match(r"^lesson-\d+$", lesson_id)
valid_lesson_id(lesson_id) ==
    /\ StartsWith(lesson_id, LESSON_PREFIX)
    /\ DigitsToEnd(SubSeq(lesson_id, Len(LESSON_PREFIX) + 1, Len(lesson_id)))

\* valid_activity_id: re.match(r"^a\d+$", activity_id)
valid_activity_id(activity_id) ==
    /\ StartsWith(activity_id, <<"a">>)
    /\ DigitsToEnd(SubSeq(activity_id, 2, Len(activity_id)))

LessonIds == { Str(LESSON_PREFIX \o <<"0">>), Str(<<"x">>), Int5 }
ActivityIds == { Str(<<"a", "0">>), Str(<<>>) }

\* a payload without "files"
NoFiles == [list |-> FALSE, truthy |-> FALSE, items |-> <<>>]

\* payload.get("files") or []
FilesOrEmpty(files) == IF files.truthy THEN files ELSE List(<<>>)

\* the session cookie, the X-CSRF-Token header and the payload of a request
ApiRequests ==
    [ cookie : {"", "t1"}, header : {"", "k1", "k9"},
      lesson_id : LessonIds, activity_id : ActivityIds,
      code : CodeInputs, files : FileInputs \cup {NoFiles} ]

\* the row of the sessions table, expiring at utcnow or after it
SessionRows ==
    [ stored : {TRUE}, id : {"t1"}, csrf_token : {"k1"}, expires_at : {1, 2} ]

NoCall == [code |-> None, files |-> List(<<>>)]
NoState == [user |-> FALSE, session |-> FALSE, csrf_token |-> ""]
NoResponse == [state |-> NoState, status |-> 0, ok |-> FALSE, body |-> NoResult]

InitApi ==
    /\ pc = "auth_middleware"
    /\ cfg \in { [enabled |-> TRUE, auto_pull |-> FALSE],
                 [enabled |-> TRUE, auto_pull |-> TRUE],
                 [enabled |-> FALSE, auto_pull |-> FALSE] }
    /\ inp = NoCall
    /\ loc = Loc0
    /\ eng \in { Eng0(s) : s \in {"socket", "file", "missing"} }
    /\ now = 0
    /\ calls = <<>>
    /\ outcome = [kind |-> "none", result |-> NoResult]
    /\ fin \in [ request : ApiRequests, session : SessionRows,
                 active : BOOLEAN, utcnow : {1} ]
    /\ fout = NoResponse

(* lines 423-451: auth_middleware on a path under /api/ *)
AuthMiddleware ==
    /\ pc = "auth_middleware"
    /\ LET token == fin.request.cookie
           found == token /= "" /\ fin.session.stored /\ fin.session.id = token
           expired == found /\ fin.session.expires_at <= fin.utcnow
           session == found /\ ~expired
           user == session /\ fin.active
       IN /\ fin' = IF expired THEN [fin EXCEPT !.session.stored = FALSE] ELSE fin
          /\ fout' = [fout EXCEPT
                        !.state = [user |-> user, session |-> session,
                                   csrf_token |-> IF session
                                                  THEN fin.session.csrf_token
                                                  ELSE ""]]
    /\ pc' = "python_run"
    /\ UNCHANGED <<cfg, inp, loc, eng, now, calls, outcome>>

\* any token at all is taken
TokenPresent(token, csrf_token) == token /= ""

\* the header is there and equals session.csrf_token
TokenMatches(token, csrf_token) == token /= "" /\ token = csrf_token

\* csrf_guard(request): the status it raises, 0 when it returns
csrf_guard(state, token) ==
    IF ~state.session THEN 401
    ELSE IF ~TokenMatches(token, state.csrf_token) THEN 403
    ELSE 0

\* the handler ends with an HTTPException, or with an exception nothing
\* handles (status 500)
Reply(status) ==
    /\ fout' = [fout EXCEPT !.status = status]
    /\ pc' = "responded"
    /\ UNCHANGED inp

(* lines 676-694: python_run up to the call of run_python *)
PythonRun ==
    /\ pc = "python_run"
    /\ UNCHANGED <<cfg, loc, eng, now, calls, outcome, fin>>
    /\ LET req == fin.request
           guard == csrf_guard(fout.state, req.header)
       IN IF guard /= 0 THEN Reply(guard)
          ELSE IF ~fout.state.user THEN Reply(401)
          ELSE IF ~IsStr(req.lesson_id) THEN Reply(500)
          ELSE IF \/ ~valid_lesson_id(req.lesson_id.s)
                  \/ ~valid_activity_id(req.activity_id.s)
          THEN Reply(400)
          ELSE IF ~IsStr(req.code) \/ Strip(req.code.s) = <<>> THEN Reply(400)
          ELSE /\ inp' = [code |-> req.code, files |-> FilesOrEmpty(req.files)]
               /\ pc' = "validate"
               /\ UNCHANGED fout

\* every error of the runner is answered with 500
StatusOfErrorsAs500(kind) == IF kind = "result" THEN 200 ELSE 500

\* the except clauses of python_run; any other exception is answered by
\* the server with 500
StatusOf(kind) ==
    CASE kind = "result" -> 200
      [] kind = "ValueError" -> 400
      [] kind = "RunnerUnavailable" -> 503
      [] kind = "RunnerError" -> 500
      [] OTHER -> 500

(* lines 695-703: the outcome of run_python becomes the response *)
Respond ==
    /\ pc = "done"
    /\ fout' = [fout EXCEPT !.status = StatusOf(outcome.kind),
                            !.ok = outcome.kind = "result",
                            !.body = outcome.result]
    /\ pc' = "responded"
    /\ UNCHANGED <<cfg, inp, loc, eng, now, calls, outcome, fin>>

NextApi == AuthMiddleware \/ PythonRun \/ Next \/ Respond

SpecApi == InitApi /\ [][NextApi]_vars

\* the request carries the live session of an active user and its token
Authentic ==
    /\ fin.request.cookie = fin.session.id
    /\ fin.session.expires_at > fin.utcnow
    /\ fin.active
    /\ fin.request.header = fin.session.csrf_token

\* lesson and activity ids of the accepted form
GoodIds ==
    /\ fin.request.lesson_id = Str(LESSON_PREFIX \o <<"0">>)
    /\ fin.request.activity_id = Str(<<"a", "0">>)

\* run_python was called for the request
Invoked ==
    \/ pc \notin {"auth_middleware", "python_run", "responded"}
    \/ outcome.kind /= "none"

\* C11: the endpoint answers a RunResult with 200, ok = true and the result
\* fields, the validation error with 400, RunnerUnavailable with 503 and
\* RunnerError with 500; an authentic request whose code is empty or only
\* whitespace is answered with 400 and run_python is not called for it.
C11_OutcomesToResponses ==
    pc = "responded" =>
        /\ outcome.kind = "result" =>
             (fout.status = 200 /\ fout.ok /\ fout.body = outcome.result)
        /\ outcome.kind = "ValueError" => (fout.status = 400 /\ ~fout.ok)
        /\ outcome.kind = "RunnerUnavailable" => (fout.status = 503 /\ ~fout.ok)
        /\ outcome.kind = "RunnerError" => (fout.status = 500 /\ ~fout.ok)
        /\ ( /\ Authentic
             /\ GoodIds
             /\ IsStr(fin.request.code)
             /\ \A i \in 1..Len(fin.request.code.s) :
                  fin.request.code.s[i] \in Whitespace ) =>
               (fout.status = 400 /\ ~Invoked /\ calls = <<>>)

C11_Witness ==
    /\ pc = "responded"
    /\ fout.status = 200
    /\ fout.ok
    /\ fout.body.files /= <<>>
    /\ outcome.kind = "result"

\* C12: run_python is called only for a request that carries the live
\* session of an active user and that session's CSRF token; any other request
\* is answered with 401 or 403 (401 without a live session, 403 when the
\* session is live and the token differs) and no engine call is made for it.
C12_OnlyAuthenticRequestsRun ==
    /\ Invoked => Authentic
    /\ (pc = "responded" /\ ~Authentic) =>
         /\ fout.status \in {401, 403}
         /\ calls = <<>>
         /\ eng.made = {}
         /\ ( \/ fin.request.cookie /= fin.session.id
              \/ fin.session.expires_at <= fin.utcnow ) => fout.status = 401
         /\ ( /\ fin.request.cookie = fin.session.id
              /\ fin.session.expires_at > fin.utcnow
              /\ fin.request.header /= fin.session.csrf_token ) => fout.status = 403

C12_Witness ==
    /\ Authentic
    /\ Invoked
    /\ eng.exists
    /\ pc = "inspect"

----------------------------------------------------------------------------
(* The admission gate of python_run: "async with runner_semaphore" around  *)
(* "await asyncio.to_thread(run_python, ...)".  fin holds the permits of   *)
(* the semaphore, its queue of waiters, the state of every handler and of  *)
(* the worker thread that runs run_python for it.  A cancelled handler     *)
(* leaves the "async with" block, which releases its permit; the worker    *)
(* thread is not interrupted by the cancellation of the await.             *)

Handlers == 1..MaxHandlers

InitGate ==
    /\ pc = "serving"
    /\ fin = [ value |-> RUNNER_CONCURRENCY, waiters |-> <<>>,
               handler |-> [r \in Handlers |-> "idle"],
               thread |-> [r \in Handlers |-> "none"] ]
    /\ fout = <<>>
    /\ Idle

\* the handler r holds a permit and awaits run_python on a worker thread
Admitted(gate, r) ==
    [gate EXCEPT !.handler[r] = "awaiting", !.thread[r] = "running"]

\* Semaphore.release(): the permit goes to the first waiter, if there is one
Release(gate) ==
    IF gate.waiters /= <<>>
    THEN [Admitted(gate, Head(gate.waiters)) EXCEPT !.waiters = Tail(gate.waiters)]
    ELSE [gate EXCEPT !.value = @ + 1]

GateStep(gate) ==
    /\ pc = "serving"
    /\ fin' = gate
    /\ UNCHANGED <<pc, cfg, inp, loc, eng, now, calls, outcome, fout>>

(* line 693: async with runner_semaphore, Semaphore.acquire() *)
Acquire(r) ==
    /\ fin.handler[r] = "idle"
    /\ GateStep(IF fin.value > 0 /\ fin.waiters = <<>>
                THEN Admitted([fin EXCEPT !.value = @ - 1], r)
                ELSE [fin EXCEPT !.handler[r] = "waiting",
                                 !.waiters = Append(@, r)])

\* what run_python ends with: its result or an exception
RunOutcomes ==
    {"result", "ValueError", "RunnerUnavailable", "RunnerError", "AttributeError"}

(* line 695: run_python returns or raises on the worker thread *)
ThreadReturns(r) ==
    /\ fin.thread[r] = "running"
    /\ \E kind \in RunOutcomes : GateStep([fin EXCEPT !.thread[r] = kind])

\* the permit is given back after a result only
AfterRunOfResult(gate, kind) == IF kind = "result" THEN Release(gate) ELSE gate

\* the "async with" block is left, by return or by exception: release
AfterRun(gate, kind) == Release(gate)

(* lines 695-703: the await ends, the block is left, the permit released *)
Resume(r) ==
    /\ fin.handler[r] = "awaiting"
    /\ fin.thread[r] \in RunOutcomes
    /\ GateStep(AfterRun([fin EXCEPT !.handler[r] = "responded",
                                     !.thread[r] = "none"],
                         fin.thread[r]))

\* the waiters without r
Without(waiters, r) == SelectSeq(waiters, LAMBDA w : w /= r)

(* line 693: the handler is cancelled while it waits for a permit *)
CancelWaiting(r) ==
    /\ fin.handler[r] = "waiting"
    /\ GateStep([fin EXCEPT !.handler[r] = "cancelled",
                            !.waiters = Without(@, r)])

(* line 695: the handler is cancelled while it awaits the worker thread *)
CancelAwaiting(r) ==
    /\ fin.handler[r] = "awaiting"
    /\ GateStep(Release([fin EXCEPT !.handler[r] = "cancelled"]))

NextGate ==
    \E r \in Handlers :
        \/ Acquire(r) \/ ThreadReturns(r) \/ Resume(r)
        \/ CancelWaiting(r) \/ CancelAwaiting(r)

SpecGate == InitGate /\ [][NextGate]_vars

\* every run ends (run_python is bounded by its deadline) and the event
\* loop resumes a handler whose await is over
SpecGateFair ==
    /\ SpecGate
    /\ \A r \in Handlers : WF_vars(ThreadReturns(r)) /\ WF_vars(Resume(r))

\* the run_python invocations in flight
InFlight == {r \in Handlers : fin.thread[r] = "running"}

\* C13: at every instant, the number of run_python invocations in flight is
\* at most RUNNER_CONCURRENCY, handlers cancelled while waiting or while
\* their run executes included.
C13_InFlightWithinConcurrency == Cardinality(InFlight) <= RUNNER_CONCURRENCY

----------------------------------------------------------------------------
(* _read_archive one chunk at a time, lines 389-398, on any stream of      *)
(* chunks of bytes, as run_python calls it on line 515 with its container  *)
(* running; fin is the stream, fout the size counted, the bytes buffered   *)
(* and the number of chunks taken from the stream.                         *)

\* a chunk of n bytes, no two of the chunks sharing a byte
ChunkOf(n) == [i \in 1..n |-> 10 * n + i]

ArchiveChunks ==
    { ChunkOf(n) : n \in {1, 5, RUNNER_MAX_ARCHIVE_BYTES - 5,
                          RUNNER_MAX_ARCHIVE_BYTES, RUNNER_MAX_ARCHIVE_BYTES + 1} }

InitArchive ==
    /\ pc = "read_archive"
    /\ cfg = [enabled |-> TRUE, auto_pull |-> FALSE]
    /\ inp = [code |-> Str(<<"a">>), files |-> List(<<>>)]
    /\ loc = [Loc0 EXCEPT !.container_id = "c1"]
    /\ eng = [Eng0("socket") EXCEPT !.exists = TRUE, !.running = TRUE,
                                    !.made = {"c1"}, !.touched = {"c1"}]
    /\ now = 0
    /\ calls = <<"get_archive">>
    /\ outcome = [kind |-> "none", result |-> NoResult]
    /\ fin \in UNION { [1..n -> ArchiveChunks] : n \in 0..MaxChunks }
    /\ fout = [size |-> 0, buf |-> <<>>, read |-> 0]

(* lines 392-396: one iteration of "for chunk in stream" *)
ReadChunk ==
    /\ pc = "read_archive"
    /\ fout.read < Len(fin)
    /\ LET chunk == fin[fout.read + 1]
           size == fout.size + Len(chunk)
       IN IF Crosses(size, RUNNER_MAX_ARCHIVE_BYTES)
          THEN /\ fout' = [fout EXCEPT !.size = size, !.read = @ + 1]
               /\ Fails("RunnerError")
          ELSE /\ fout' = [size |-> size, buf |-> fout.buf \o chunk,
                           read |-> fout.read + 1]
               /\ UNCHANGED <<pc, loc>>
    /\ UNCHANGED <<cfg, inp, eng, now, calls, outcome, fin>>

(* lines 397-398, 515: the stream is over, the buffer is returned *)
ReadEnd ==
    /\ pc = "read_archive"
    /\ fout.read = Len(fin)
    /\ pc' = "finally"
    /\ UNCHANGED <<cfg, inp, loc, eng, now, calls, outcome, fin, fout>>

NextArchive == ReadChunk \/ ReadEnd \/ Finally

SpecArchive == InitArchive /\ [][NextArchive]_vars

RECURSIVE Concat(_)
\* the bytes of the chunks, in chunk order
Concat(chunks) ==
    IF chunks = <<>> THEN <<>> ELSE Head(chunks) \o Concat(Tail(chunks))

\* the first chunk with which the stream is over the ceiling
FirstCrossing ==
    CHOOSE k \in 1..Len(fin) :
        /\ Len(Concat(SubSeq(fin, 1, k))) > RUNNER_MAX_ARCHIVE_BYTES
        /\ Len(Concat(SubSeq(fin, 1, k - 1))) <= RUNNER_MAX_ARCHIVE_BYTES

----------------------------------------------------------------------------
(* _safe_path on its own, lines 279-287, on any short path *)

PathChars == {"a", ".", "/", "\\", " "}

InitPath ==
    /\ pc = "safe_path"
    /\ fin \in { Str(s) : s \in UNION { [1..n -> PathChars] : n \in 0..MaxPathLen } }
               \cup {None, Int5}
    /\ fout = <<>>
    /\ Idle

SafePathCall ==
    /\ pc = "safe_path"
    /\ fout' = _safe_path(fin)
    /\ pc' = "returned"
    /\ UNCHANGED <<cfg, inp, loc, eng, now, calls, outcome, fin>>

SpecPath == InitPath /\ [][SafePathCall]_vars

RECURSIVE SplitFrom(_, _, _)
\* the components of a path between its "/"
SplitFrom(s, cur, acc) ==
    IF s = <<>> THEN Append(acc, cur)
    ELSE IF Head(s) = "/" THEN SplitFrom(Tail(s), <<>>, Append(acc, cur))
    ELSE SplitFrom(Tail(s), Append(cur, Head(s)), acc)

RECURSIVE Escapes(_, _)
\* resolved one component at a time from depth levels below the sandbox
\* root, the path steps above the root
Escapes(comps, depth) ==
    IF comps = <<>> THEN FALSE
    ELSE IF Head(comps) \in {<<>>, <<".">>} THEN Escapes(Tail(comps), depth)
    ELSE IF Head(comps) = <<".", ".">>
         THEN depth = 0 \/ Escapes(Tail(comps), depth - 1)
    ELSE Escapes(Tail(comps), depth + 1)

\* C20: a path the sanitizer accepts is relative, is made of letters,
\* digits, ".", "_", "/" and "-" only, and resolved component by component
\* against the sandbox root never steps above the root.
C20_AcceptedPathsStayInside ==
    (pc = "returned" /\ fout.exc = "none") =>
        /\ fout.val /= <<>>
        /\ fout.val[1] /= "/"
        /\ \A i \in 1..Len(fout.val) :
             fout.val[i] \in Alnum \cup {".", "_", "/", "-"}
        /\ ~Escapes(SplitFrom(fout.val, <<>>, <<>>), 0)

C20_Witness ==
    /\ pc = "returned"
    /\ fin = Str(<<" ", "a", "\\", ".", ".">>)
    /\ fout = Ok(<<"a", "/", ".", ".">>)

----------------------------------------------------------------------------
(* Properties of the RunResult, of the swallowed failures and the archive *)

\* the members of an archive that are files with a name to report
IsReported(member) ==
    member.isfile /\ MemberName(member.name) \notin {<<>>, MAIN_PY, TURTLE_PY}

Smaller(a, b) == IF a < b THEN a ELSE b

\* C22: files holds the first RUNNER_MAX_FILES reported members in archive
\* order and no more, the content of each is the member's data cut to its
\* first RUNNER_MAX_FILE_BYTES bytes, and size is the length of the decoded
\* content.
C22_FilesCapped ==
    pc = "returned" =>
        LET reported == SelectSeq(fin, IsReported)
        IN /\ Len(fout) = Smaller(Len(reported), RUNNER_MAX_FILES)
           /\ \A i \in 1..Len(fout) :
                LET content == b64decode(fout[i].content_base64)
                    data == reported[i].data
                IN /\ fout[i].path = MemberName(reported[i].name)
                   /\ Len(content) <= RUNNER_MAX_FILE_BYTES
                   /\ content = SubSeq(data, 1, Smaller(Len(data), RUNNER_MAX_FILE_BYTES))
                   /\ fout[i].size = Len(content)

C22_Witness ==
    /\ pc = "returned"
    /\ Len(SelectSeq(fin, IsReported)) > RUNNER_MAX_FILES
    /\ Len(fout) = RUNNER_MAX_FILES
    /\ fout[1].size = RUNNER_MAX_FILE_BYTES
    /\ Len(fin[1].data) > RUNNER_MAX_FILE_BYTES
    /\ IsReported(fin[1])

\* C27: whether or not the kill and the removal succeed, the step of the
\* kill leaves exit code 137 and the way to the output, and the step of the
\* finally block passes on what entered it: the exception on its way is the
\* one raised, and without one the locals of the result go on unchanged.
C27_SwallowedFailuresKeepOutcome ==
    [][ /\ pc = "kill" =>
             (pc' = "collect" /\ loc' = [loc EXCEPT !.exit_code = KILLED])
        /\ pc = "finally" =>
             /\ loc' = loc
             /\ IF loc.exc = "none"
                THEN pc' = "extract" /\ outcome' = outcome
                ELSE pc' = "done" /\ outcome'.kind = loc.exc ]_vars

C27_Witness ==
    /\ Returned
    /\ eng.removeFailed
    /\ eng.proc = "forever"
    /\ Called("kill")
    /\ Result.timed_out
    /\ Result.exit_code = KILLED

\* C28: a RunResult of a program that ended on its own, before the poll
\* loop gave up on it, has timed_out false, whatever its exit status.
C28_TimedOutOnlyWhenForced ==
    (Returned /\ eng.endedBy = "self" /\ ~loc.timed_out) => ~Result.timed_out

\* the entries of the archive named name
EntriesNamed(name) == {i \in 1..Len(loc.archive) : loc.archive[i].name = name}

\* C29: the archive of an input that got past validation holds exactly one
\* entry main.py, with the code, exactly one entry turtle.py, with the shim
\* text, then one entry per sanitized file, in input order.
C29_OneEntryProgramAndShim ==
    PastValidation =>
        /\ EntriesNamed(MAIN_PY) = {1}
        /\ loc.archive[1].data = Encode(inp.code.s)
        /\ EntriesNamed(TURTLE_PY) = {2}
        /\ loc.archive[2].data = Encode(TURTLE_STUB)
        /\ Len(loc.archive) = 2 + Len(loc.cleaned_files)
        /\ \A i \in 1..Len(loc.cleaned_files) :
             /\ loc.archive[2 + i].name = loc.cleaned_files[i].path
             /\ loc.archive[2 + i].data = Encode(loc.cleaned_files[i].content)

\* the handlers inside the "async with" block
Holders == {r \in Handlers : fin.handler[r] = "awaiting"}

\* C30: a permit is out exactly while its handler is inside the block,
\* whatever run_python ends with, so the permits are back at
\* RUNNER_CONCURRENCY when no handler is inside; and, every run ending, a
\* handler that waits for a permit is admitted (or is cancelled first).
C30_PermitsReleasedOnce ==
    /\ [](fin.value + Cardinality(Holders) = RUNNER_CONCURRENCY)
    /\ [](fin.waiters /= <<>> => fin.value = 0)
    /\ \A r \in Handlers :
         (fin.handler[r] = "waiting") ~>
             (fin.handler[r] \in {"awaiting", "responded", "cancelled"})

C30_Witness ==
    /\ \A r \in Handlers : fin.handler[r] = "responded"
    /\ fin.value = RUNNER_CONCURRENCY

(***************************************************************************)
(* Login rate limiting: rate_limit.LoginLimiter and the login endpoint.    *)
(* fin holds the login_attempts table, the user row, the number of         *)
(* sessions created and the clock; fout holds the last operation and what  *)
(* it returned.                                                            *)
(***************************************************************************)
MaxFailures == 10
MaxClock == 120

NoTime == 0 - 1

ip_key == "client:user"

LimiterKeys == {ip_key, "other"}

Passwords == {"right", "wrong"}

NoAttempt == [stored |-> FALSE, failed_count |-> 0, locked_until |-> NoTime]

InitLimiter ==
    /\ pc = "limiter"
    /\ fin = [attempts |-> [k \in LimiterKeys |-> NoAttempt],
              user |-> [failed_login_count |-> 0, locked_until |-> NoTime,
                        active |-> TRUE],
              sessions |-> 0,
              utcnow |-> 0]
    /\ fout = [op |-> "none", key |-> "", ret |-> 0]
    /\ Idle

compute_lock_seconds_from_five(failed_count) ==
    IF failed_count < 5 THEN 0
    ELSE IF failed_count < 7 THEN 120
    ELSE IF failed_count < 9 THEN 300
    ELSE 600

compute_lock_seconds(failed_count) ==
    IF failed_count < 3 THEN 0
    ELSE IF failed_count < 5 THEN 30
    ELSE IF failed_count < 7 THEN 120
    ELSE IF failed_count < 9 THEN 300
    ELSE 600

\* The clock moves on by half a minute or a minute.
Tick ==
    /\ \E d \in {30, 60} :
          /\ fin.utcnow + d <= MaxClock
          /\ fin' = [fin EXCEPT !.utcnow = @ + d]
    /\ UNCHANGED <<pc, cfg, inp, loc, eng, now, calls, outcome, fout>>

LimiterFrame == UNCHANGED <<pc, cfg, inp, loc, eng, now, calls, outcome>>

Check(key) ==
    /\ pc = "limiter"
    /\ LET attempt == fin.attempts[key]
       IN  fout' = [op |-> "check", key |-> key,
                    ret |-> IF ~attempt.stored THEN 0
                            ELSE IF attempt.locked_until /= NoTime
                                    /\ attempt.locked_until > fin.utcnow
                                 THEN attempt.locked_until - fin.utcnow
                                 ELSE 0]
    /\ UNCHANGED fin
    /\ LimiterFrame

RecordFailure(key) ==
    /\ pc = "limiter"
    /\ fin.attempts[key].failed_count < MaxFailures
    /\ LET attempt == fin.attempts[key]
           failed_count == IF attempt.stored THEN attempt.failed_count + 1 ELSE 1
           lock_seconds == compute_lock_seconds(failed_count)
       IN  /\ fin' = [fin EXCEPT !.attempts[key] =
                         [stored |-> TRUE,
                          failed_count |-> failed_count,
                          locked_until |-> IF lock_seconds /= 0
                                           THEN fin.utcnow + lock_seconds
                                           ELSE NoTime]]
           /\ fout' = [op |-> "record_failure", key |-> key, ret |-> lock_seconds]
    /\ LimiterFrame

Reset(key) ==
    /\ pc = "limiter"
    /\ fin' = [fin EXCEPT !.attempts[key] = NoAttempt]
    /\ fout' = [op |-> "reset", key |-> key, ret |-> 0]
    /\ LimiterFrame

\* Binding a call's arguments to the parameters of a method (self apart).
Binds(params, args) == Len(args) = Len(params)

\* POST /api/auth/login for the one seeded user.  login_limiter.check,
\* record_failure and reset take (db, key) and are called with the key
\* alone, so the first of these calls raises TypeError and the request is
\* answered with 500.
Login(password) ==
    /\ pc = "limiter"
    /\ LET user == fin.user
           attempt == fin.attempts[ip_key]
           respond(status, f) ==
               /\ fout' = [op |-> "login", key |-> password, ret |-> status]
               /\ fin' = f
       IN  IF ~Binds(<<"db", "key">>, <<ip_key>>)
           THEN respond(500, fin)
           ELSE IF attempt.stored /\ attempt.locked_until > fin.utcnow
           THEN respond(429, fin)
           ELSE IF user.locked_until /= NoTime /\ user.locked_until > fin.utcnow
           THEN respond(429, fin)
           ELSE IF password /= "right"
           THEN LET failed_login_count == user.failed_login_count + 1
                    lock_seconds == compute_lock_seconds(failed_login_count)
                IN  respond(401, [fin EXCEPT
                        !.user.failed_login_count = failed_login_count,
                        !.user.locked_until = IF lock_seconds /= 0
                                              THEN fin.utcnow + lock_seconds
                                              ELSE @])
           ELSE IF ~user.active
           THEN respond(403, fin)
           ELSE respond(200, [fin EXCEPT
                        !.user.failed_login_count = 0,
                        !.user.locked_until = NoTime,
                        !.sessions = @ + 1,
                        !.attempts[ip_key] = NoAttempt])
    /\ LimiterFrame

NextLimiter ==
    \/ \E key \in LimiterKeys : Check(key)
    \/ \E key \in LimiterKeys : RecordFailure(key)
    \/ \E key \in LimiterKeys : Reset(key)
    \/ \E password \in Passwords : Login(password)
    \/ Tick

SpecLimiter == InitLimiter /\ [][NextLimiter]_vars

\* The lock duration the limiter owes after n recorded failures.
LockTable(n) ==
    CASE n < 3 -> 0
      [] n \in 3..4 -> 30
      [] n \in 5..6 -> 120
      [] n \in 7..8 -> 300
      [] OTHER -> 600

\* C25: for every key, record_failure returns the lock duration fixed by the
\* number n of failures recorded for the key since its last reset (0 below 3,
\* 30 for 3..4, 120 for 5..6, 300 for 7..8, 600 from 9 on), n being one more
\* than before, or 1 when the key has no record; so the duration never
\* decreases between resets; reset deletes the key's record, and check
\* returns 0 for a key without a record.
C25_LockDurationFollowsFailures ==
    /\ [](fout.op = "record_failure" =>
            /\ fin.attempts[fout.key].stored
            /\ fout.ret = LockTable(fin.attempts[fout.key].failed_count))
    /\ [](fout.op = "reset" => fin.attempts[fout.key] = NoAttempt)
    /\ [](fout.op = "check" /\ ~fin.attempts[fout.key].stored => fout.ret = 0)
    /\ [][\A k \in LimiterKeys :
            (fout'.op = "record_failure" /\ fout'.key = k
                /\ fin'.attempts[k] /= fin.attempts[k])
            => /\ fin'.attempts[k].failed_count =
                    (IF fin.attempts[k].stored
                     THEN fin.attempts[k].failed_count + 1 ELSE 1)
               /\ fout'.ret >= LockTable(fin.attempts[k].failed_count)
               /\ \A j \in LimiterKeys \ {k} :
                    fin'.attempts[j] = fin.attempts[j]]_vars

C25_Witness ==
    /\ fout.op = "record_failure"
    /\ fout.key = ip_key
    /\ fout.ret = 600
    /\ fin.attempts["other"].stored
    /\ fin.attempts["other"].failed_count = 1

\* C24: once five consecutive wrong passwords have locked the user, a login
\* is answered 401 or 429 and never creates a session; and a login with the
\* right password for a user with no failure on record, whose key is not
\* tracked by the limiter, is answered 200 and creates a session.
C24_LockoutAndReset ==
    /\ (fout.op = "login" /\ fin.user.failed_login_count >= 5
            /\ fin.user.locked_until > fin.utcnow)
       => fout.ret \in {401, 429}
    /\ (fout.op = "login" /\ fout.key = "right"
            /\ fin.user.failed_login_count = 0
            /\ fin.user.locked_until = NoTime
            /\ ~fin.attempts[ip_key].stored)
       => (fout.ret = 200 /\ fin.sessions >= 1)

(***************************************************************************)
(* API rate limiting: rate_limit.ApiRateLimiter.  fin holds the            *)
(* api_rate_limits table and the clock; fout the last call and its result. *)
(***************************************************************************)
MaxCalls == 3

window_minutes == 1

API_RATE_LIMITS(endpoint) ==
    CASE endpoint = "activity_save" -> 60
      [] endpoint = "python_run" -> 20
      [] endpoint = "mark_activity" -> 30
      [] OTHER -> 120

RatePairs == {<<"user:123", "python_run">>, <<"user:123", "test_endpoint">>}

NoRecord == [stored |-> FALSE, request_count |-> 0, window_start |-> 0]

InitRate ==
    /\ pc = "rate"
    /\ fin = [records |-> [p \in RatePairs |-> NoRecord], utcnow |-> 0]
    /\ fout = [op |-> "none", key |-> <<>>, given |-> FALSE, ret |-> <<>>]
    /\ Idle

AllowedBelow(request_count, limit) == request_count < limit

Allowed(request_count, limit) == request_count <= limit

\* check_and_increment(db, identifier, endpoint, limit): `given` tells
\* whether the caller passed a limit.
CheckAndIncrement(identifier, endpoint, given, limit_arg) ==
    /\ pc = "rate"
    /\ \/ fin.records[<<identifier, endpoint>>].request_count < MaxCalls
       \/ fin.records[<<identifier, endpoint>>].window_start
            < fin.utcnow - 60 * window_minutes
    /\ LET limit == IF given THEN limit_arg ELSE API_RATE_LIMITS(endpoint)
           window_start == fin.utcnow - 60 * window_minutes
           kept == [p \in RatePairs |->
                      IF p = <<identifier, endpoint>>
                         /\ fin.records[p].stored
                         /\ fin.records[p].window_start < window_start
                      THEN NoRecord ELSE fin.records[p]]
           record == kept[<<identifier, endpoint>>]
           reply(count, allowed, start) ==
               /\ fin' = [fin EXCEPT !.records =
                            [kept EXCEPT ![<<identifier, endpoint>>] =
                                [stored |-> TRUE, request_count |-> count,
                                 window_start |-> start]]]
               /\ fout' = [op |-> "check_and_increment",
                           key |-> <<identifier, endpoint>>,
                           given |-> given,
                           ret |-> <<allowed, count, limit>>]
       IN  IF ~record.stored
           THEN reply(1, TRUE, fin.utcnow)
           ELSE IF record.window_start < window_start
           THEN reply(1, Allowed(1, limit), fin.utcnow)
           ELSE reply(record.request_count + 1,
                      Allowed(record.request_count + 1, limit),
                      record.window_start)
    /\ UNCHANGED <<pc, cfg, inp, loc, eng, now, calls, outcome>>

NextRate ==
    \/ \E p \in RatePairs, given \in BOOLEAN, limit \in {1, 2} :
          CheckAndIncrement(p[1], p[2], given, limit)
    \/ Tick

SpecRate == InitRate /\ [][NextRate]_vars

\* The record of pair p counts a window that is still open at the clock's
\* time: its window_start is no older than the window length.
WindowOpen(p) ==
    /\ fin.records[p].stored
    /\ fin.utcnow - fin.records[p].window_start <= 60 * window_minutes

\* C26: for every (identifier, endpoint) pair, the k-th call of
\* check_and_increment inside one window returns (k <= limit, k, limit), and
\* the first call made once the record's window_start is older than the
\* window length, or when the pair has no record, starts a fresh window and
\* returns (TRUE, 1, limit); limit is the caller's limit, or the endpoint's
\* configured one when none is passed.
C26_KthCallOfAWindow ==
    [][\A p \in RatePairs :
        (fout'.op = "check_and_increment" /\ fout'.key = p
            /\ fin'.records[p] /= fin.records[p])
        => LET k == IF WindowOpen(p)
                    THEN fin.records[p].request_count + 1 ELSE 1
               limit == fout'.ret[3]
           IN  /\ fout'.ret = <<k <= limit, k, limit>>
               /\ ~WindowOpen(p) => fout'.ret = <<TRUE, 1, limit>>
               /\ fin'.records[p].request_count = k
               /\ fin'.records[p].window_start =
                    (IF WindowOpen(p) THEN fin.records[p].window_start
                     ELSE fin.utcnow)
               /\ ~fout'.given =>
                    limit = (IF p[2] = "python_run" THEN 20 ELSE 120)]_vars

C26_Witness ==
    /\ fout.op = "check_and_increment"
    /\ fout.ret = <<FALSE, 3, 2>>
    /\ \E p \in RatePairs :
          /\ p /= fout.key
          /\ fin.records[p].stored
          /\ fin.records[p].window_start > fin.records[fout.key].window_start
          /\ fin.records[p].request_count = 1

(***************************************************************************)
(* runner_diagnostics.  fin holds what the environment will answer: the    *)
(* kind of host, and the exception (or "none") met when the client is      *)
(* constructed, when the adapter is looked up and when the engine's        *)
(* version is asked.  fout is the report built so far.                     *)
(***************************************************************************)
InitDiag ==
    /\ pc = "diagnostics"
    /\ cfg = [enabled |-> TRUE, auto_pull |-> FALSE]
    /\ inp = [code |-> Str(<<"a">>), files |-> List(<<>>)]
    /\ loc = Loc0
    /\ eng \in { Eng0(s) : s \in {"socket", "file", "missing"} }
    /\ now = 0
    /\ calls = <<>>
    /\ outcome = [kind |-> "none", result |-> NoResult]
    /\ fin \in [unix : BOOLEAN,
                client_exc : {"none", "DockerException", "TypeError"},
                adapter_exc : {"none", "InvalidSchema"},
                version_exc : {"none", "APIError", "ConnectionError"}]
    /\ fout = [socket_exists |-> "None", socket_is_socket |-> "None",
               fields |-> {}]

\* an except clause naming the classes in types catches exc only when exc
\* is itself named
HandlesNamedOnly(types, exc) == exc \in types

\* an except clause naming the classes in types catches exc: Exception is
\* the base class of every exception raised here
Handles(types, exc) == "Exception" \in types \/ exc \in types

(* lines 160-201: the socket path is examined and the report is started *)
DiagSocket ==
    /\ pc = "diagnostics"
    /\ UNCHANGED <<cfg, inp, loc, eng, now, fin>>
    /\ IF ~fin.unix
       THEN /\ UNCHANGED <<calls, fout, outcome>>
            /\ pc' = "diag_client"
       ELSE LET exc == IF eng.socket = "missing" THEN "OSError" ELSE "none"
            IN  /\ calls' = Log(calls, "stat")
                /\ IF exc = "none"
                   THEN /\ fout' = [fout EXCEPT
                               !.socket_exists = "True",
                               !.socket_is_socket =
                                  IF eng.socket = "socket" THEN "True" ELSE "False"]
                        /\ pc' = "diag_client"
                        /\ UNCHANGED outcome
                   ELSE IF Handles({"OSError"}, exc)
                   THEN /\ fout' = [fout EXCEPT !.socket_exists = "False"]
                        /\ pc' = "diag_client"
                        /\ UNCHANGED outcome
                   ELSE /\ Raises(exc)
                        /\ UNCHANGED fout

(* lines 203-218: the client is built and asked; the report is returned *)
DiagClient ==
    /\ pc = "diag_client"
    /\ UNCHANGED <<cfg, inp, loc, eng, now, fin>>
    /\ LET client_exc ==
               IF fin.unix /\ ~SocketUsable(eng.socket) THEN "RunnerUnavailable"
               ELSE IF Handles({"DockerException", "ValueError"}, fin.client_exc)
               THEN "RunnerUnavailable"
               ELSE fin.client_exc
           asked == {"client_base_url", "client_adapters"}
               \cup (IF fin.adapter_exc = "none" THEN {"adapter_for_base_url"}
                     ELSE IF Handles({"Exception"}, fin.adapter_exc)
                     THEN {"adapter_error"} ELSE {})
               \cup (IF fin.version_exc = "none" THEN {"server_version"}
                     ELSE IF Handles({"Exception"}, fin.version_exc)
                     THEN {"server_version_error"} ELSE {})
           inner == IF fin.adapter_exc /= "none"
                       /\ ~Handles({"Exception"}, fin.adapter_exc)
                    THEN fin.adapter_exc
                    ELSE IF fin.version_exc /= "none"
                            /\ ~Handles({"Exception"}, fin.version_exc)
                    THEN fin.version_exc
                    ELSE "none"
           raised == IF client_exc /= "none" THEN client_exc ELSE inner
           report(fields) ==
               /\ fout' = [fout EXCEPT !.fields = fields]
               /\ pc' = "done"
               /\ outcome' = [kind |-> "report", result |-> NoResult]
       IN  /\ calls' =
                IF fin.unix /\ ~SocketUsable(eng.socket)
                THEN Log(calls, "ensure_socket")
                ELSE IF client_exc /= "none"
                THEN Log(Log(calls, "ensure_socket"), "APIClient")
                ELSE IF fin.adapter_exc /= "none"
                        /\ ~Handles({"Exception"}, fin.adapter_exc)
                THEN Log(Log(calls, "ensure_socket"), "APIClient")
                ELSE Log(Log(Log(calls, "ensure_socket"), "APIClient"), "version")
           /\ IF raised = "none"
              THEN report(asked)
              ELSE IF Handles({"Exception"}, raised)
              THEN report({"client_error"})
              ELSE /\ Raises(raised)
                   /\ UNCHANGED fout

NextDiag == DiagSocket \/ DiagClient

SpecDiag == InitDiag /\ [][NextDiag]_vars

\* C23: runner_diagnostics never raises, whatever the socket path is
\* (missing, a plain file, a socket) and whatever the client and the engine
\* answer: a missing socket, a path that is no socket, a client that cannot
\* be built and an engine that does not answer each leave a field in the
\* returned report; and no call on a container and no pull is issued, the
\* engine being left as it was.
C23_DiagnosticsNeverRaises ==
    /\ outcome.kind \in {"none", "report"}
    /\ eng = Eng0(eng.socket)
    /\ ContainerCalls = <<>>
    /\ ~Called("pull")
    /\ pc = "done" =>
        /\ (fin.unix /\ eng.socket = "missing") =>
              (fout.socket_exists = "False" /\ "client_error" \in fout.fields)
        /\ (fin.unix /\ eng.socket = "file") =>
              (fout.socket_is_socket = "False" /\ "client_error" \in fout.fields)
        /\ fin.client_exc /= "none" => "client_error" \in fout.fields
        /\ (fin.version_exc /= "none" /\ "client_error" \notin fout.fields) =>
              "server_version_error" \in fout.fields

C23_Witness ==
    /\ pc = "done"
    /\ outcome.kind = "report"
    /\ fin.unix
    /\ eng.socket = "socket"
    /\ fin.client_exc = "none"
    /\ fin.version_exc = "ConnectionError"
    /\ fout.fields = {"client_base_url", "client_adapters", "adapter_error",
                      "server_version_error"}
    /\ Called("version")

(***************************************************************************)
(* _build_exec_command.  fin is the code text, a sequence of characters;   *)
(* fout the returned pair.  An argument is a sequence of pieces of text.   *)
(***************************************************************************)
MaxCodeLen == 4

\* The bootstrap program, line by line: it decodes TLAC_CODE_B64, writes
\* /tmp/main.py, changes to /tmp, runs the text and copies the files it made.
runner_bootstrap ==
    <<"import base64,os,shutil", "LF",
      "payload=os.environ.get('TLAC_CODE_B64','')", "LF",
      "text=base64.b64decode(payload.encode('ascii')).decode('utf-8','replace') if payload else ''", "LF",
      "path='/tmp/main.py'", "LF",
      "try:", "LF",
      "    with open(path,'w',encoding='utf-8') as handle:", "LF",
      "        handle.write(text)", "LF",
      "except Exception:", "LF",
      "    pass", "LF",
      "try:", "LF",
      "    os.chdir('/tmp')", "LF",
      "except Exception:", "LF",
      "    pass", "LF",
      "cwd=os.getcwd()", "LF",
      "def _snapshot(root):", "LF",
      "    files=set()", "LF",
      "    for base, _, names in os.walk(root):", "LF",
      "        for name in names:", "LF",
      "            full=os.path.join(base,name)", "LF",
      "            try:", "LF",
      "                rel=os.path.relpath(full, root)", "LF",
      "            except Exception:", "LF",
      "                rel=name", "LF",
      "            files.add(rel)", "LF",
      "    return files", "LF",
      "before=_snapshot(cwd)", "LF",
      "globals_dict={'__name__':'__main__','__file__':path}", "LF",
      "exec(compile(text, path, 'exec'), globals_dict)", "LF",
      "after=_snapshot(cwd)", "LF",
      "if cwd != '/tmp':", "LF",
      "    for rel in sorted(after - before):", "LF",
      "        src=os.path.join(cwd, rel)", "LF",
      "        dst=os.path.join('/tmp', rel)", "LF",
      "        try:", "LF",
      "            dirpath=os.path.dirname(dst)", "LF",
      "            if dirpath:", "LF",
      "                os.makedirs(dirpath, exist_ok=True)", "LF",
      "            shutil.copy2(src, dst)", "LF",
      "        except Exception:", "LF",
      "            pass", "LF">>

_build_exec_command_inline(code) ==
    [command |-> << <<"timeout">>, <<"-s">>, <<"SIGKILL">>,
                    <<ToString(RUNNER_TIMEOUT_SEC), "s">>,
                    <<"python">>, <<"-c">>, code >>,
     env |-> [TLAC_CODE_B64 |-> b64encode(Encode(code))]]

_build_exec_command(code) ==
    [command |-> << <<"timeout">>, <<"-s">>, <<"SIGKILL">>,
                    <<ToString(RUNNER_TIMEOUT_SEC), "s">>,
                    <<"python">>, <<"-c">>, runner_bootstrap >>,
     env |-> [TLAC_CODE_B64 |-> b64encode(Encode(code))]]

InitCmd ==
    /\ pc = "build_exec_command"
    /\ fin \in UNION { [1..n -> {"a", "LF", "U+00E9"}] : n \in 0..MaxCodeLen }
    /\ fout = <<>>
    /\ Idle

BuildExecCommand ==
    /\ pc = "build_exec_command"
    /\ fout' = _build_exec_command(fin)
    /\ pc' = "returned"
    /\ UNCHANGED <<cfg, inp, loc, eng, now, calls, outcome, fin>>

SpecCmd == InitCmd /\ [][BuildExecCommand]_vars

\* C21: for every code text, _build_exec_command returns the argument
\* vector timeout -s SIGKILL <timeout>s python -c <bootstrap>, the same
\* whatever the code is, so that no argument is the user's code; and the
\* environment variable TLAC_CODE_B64, whose base64 decoding read as UTF-8
\* is exactly the code.
C21_CodeTravelsInEnvironment ==
    pc = "returned" =>
        /\ Len(fout.command) = 7
        /\ SubSeq(fout.command, 1, 3) = << <<"timeout">>, <<"-s">>, <<"SIGKILL">> >>
        /\ fout.command[4] = <<ToString(RUNNER_TIMEOUT_SEC), "s">>
        /\ SubSeq(fout.command, 5, 6) = << <<"python">>, <<"-c">> >>
        /\ fout.command[7] = runner_bootstrap
        /\ \A i \in 1..Len(fout.command) : fout.command[i] /= fin
        /\ DOMAIN fout.env = {"TLAC_CODE_B64"}
        /\ Decode(b64decode(fout.env.TLAC_CODE_B64)) = fin

C21_Witness ==
    /\ pc = "returned"
    /\ fin = <<"a", "U+00E9", "LF", "a">>
    /\ Len(fout.env.TLAC_CODE_B64) = 8

====
